---- MODULE Spec2Model ----
(***************************************************************************)
(* Model of streamlit_app/eq_dashboard.py: the module-level script, the    *)
(* data retrieval routine retrieve_data_from_usgs_api and the export       *)
(* helper get_table_download_link.                                         *)
(*                                                                         *)
(* Numbers with decimals are held as integers: a slider value in tenths,   *)
(* a magnitude / coordinate / depth in hundredths.  Text is a sequence of  *)
(* Unicode code points, bytes are a sequence of 0..255.                    *)
(***************************************************************************)
EXTENDS Integers, Sequences, FiniteSets, TLC

VARIABLES pc, start_date, end_date, min_mag, req_txt, netCalls, response,
          eq_df, ui, count, mean, href, err, steps

vars == <<pc, start_date, end_date, min_mag, req_txt, netCalls, response,
          eq_df, ui, count, mean, href, err, steps>>

\* ------------------------------------------------------------------
\* Bounds of the model
\* ------------------------------------------------------------------
\* largest number of data rows in a response body
MaxRows == 2

\* ------------------------------------------------------------------
\* Python values handed to retrieve_data_from_usgs_api
\* ------------------------------------------------------------------
NoneVal == [type |-> "NoneType", v |-> 0]
\* a float, v in tenths (0.0, 5.0, 10.0 are slider positions)
PyFloat(t) == [type |-> "float", v |-> t]
PyInt(n) == [type |-> "int", v |-> n]
\* a str / a list, v is its length
PyStr(n) == [type |-> "str", v |-> n]
PyList(n) == [type |-> "list", v |-> n]

Date(y, m, d) == [type |-> "date", y |-> y, m |-> m, d |-> d]
\* the text '2024-01-01' (what the docstring asks for), not a datetime.date
NotADate == [type |-> "str", y |-> 2024, m |-> 1, d |-> 1]

Dates == {Date(2024, 1, 1), Date(2024, 1, 2)}

\* the slider: min_value=0.0, value=5.0, max_value=10.0
SliderValues == {PyFloat(0), PyFloat(50), PyFloat(100)}

\* arguments a caller of the function can pass for min_mag
MinMagArgs == SliderValues \cup {NoneVal, PyInt(0), PyInt(5), PyStr(0), PyStr(3), PyList(0)}

\* Python truth value: None, 0, 0.0, '' and [] are false
Truthy(x) ==
  CASE x.type = "NoneType" -> FALSE
    [] OTHER -> x.v # 0

\* isinstance(x, float) or isinstance(x, int)
IsFloatOrInt(x) == x.type \in {"float", "int"}

\* isinstance(x, datetime.date)
IsDate(x) == x.type = "date"

\* ------------------------------------------------------------------
\* f-string formatting
\* ------------------------------------------------------------------
Pad2(n) == IF n < 10 THEN "0" \o ToString(n) ELSE ToString(n)

Pad4(n) ==
  IF n < 10 THEN "000" \o ToString(n)
  ELSE IF n < 100 THEN "00" \o ToString(n)
  ELSE IF n < 1000 THEN "0" \o ToString(n)
  ELSE ToString(n)

\* str(datetime.date): YYYY-MM-DD
FormatDate(d) == Pad4(d.y) \o "-" \o Pad2(d.m) \o "-" \o Pad2(d.d)

\* str of an int, repr of a float with one decimal
FormatNumber(x) ==
  IF x.type = "float"
  THEN ToString(x.v \div 10) \o "." \o ToString(x.v % 10)
  ELSE ToString(x.v)

ENDPOINT == "https://earthquake.usgs.gov/fdsnws/event/1/query"

\* the request text as the sequence of its pieces
UrlWithMag(s, e, m) ==
  <<ENDPOINT, "?", "format=csv", "&", "starttime=", FormatDate(s),
    "&", "endtime=", FormatDate(e), "&", "minmagnitude=", FormatNumber(m)>>

UrlWithoutMag(s, e) ==
  <<ENDPOINT, "?", "format=csv", "&", "starttime=", FormatDate(s),
    "&", "endtime=", FormatDate(e)>>

\* lines 47-50: if min_mag: ... else: ...
BuildUrl(s, e, m) ==
  IF Truthy(m) THEN UrlWithMag(s, e, m) ELSE UrlWithoutMag(s, e)

\* ------------------------------------------------------------------
\* The response of the catalog endpoint
\* ------------------------------------------------------------------
HTTP_OK == 200

\* status codes the endpoint answers with (204: no event matched)
Statuses == {HTTP_OK, 204, 400, 503}

RequiredCols == {"place", "latitude", "longitude", "mag", "depth"}

\* the columns in the order the catalog writes them
CatalogOrder == <<"latitude", "longitude", "depth", "mag", "place">>

\* a cell of the body: a number (hundredths), nothing, or other text
NumCell(h) == [kind |-> "num", v |-> h]
EmptyCell == [kind |-> "empty", v |-> 0]
\* v selects the text: 1 is 'x', 2 is a place name
TextCell(i) == [kind |-> "text", v |-> i]

\* a record of the catalog with every cell in order
GoodRow ==
  [c \in RequiredCols |->
     CASE c = "mag" -> NumCell(510)
       [] c = "latitude" -> NumCell(3400)
       [] c = "longitude" -> NumCell(-12050)
       [] c = "depth" -> NumCell(1000)
       [] OTHER -> TextCell(2)]

\* the records a body is made of: in order, or with one cell empty or not
\* a number
CatalogRows ==
  {GoodRow,
   [GoodRow EXCEPT !["mag"] = NumCell(615)],
   [GoodRow EXCEPT !["mag"] = EmptyCell],
   [GoodRow EXCEPT !["mag"] = TextCell(1)],
   [GoodRow EXCEPT !["latitude"] = EmptyCell],
   [GoodRow EXCEPT !["longitude"] = TextCell(1)]}

RECURSIVE SelectCols(_, _)
\* the columns of a sequence that belong to a set, order kept
SelectCols(order, keep) ==
  IF order = <<>> THEN <<>>
  ELSE IF Head(order) \in keep
       THEN <<Head(order)>> \o SelectCols(Tail(order), keep)
       ELSE SelectCols(Tail(order), keep)

Range(s) == {s[i] : i \in DOMAIN s}

\* the records of a body that has only the columns cols
RowsOf(cols) == {[c \in cols |-> r[c]] : r \in CatalogRows}

\* a body is no text at all, or a header line followed by data rows
EmptyBody == [text |-> "empty", header |-> <<>>, rows |-> <<>>]

TableBody(header, rows) == [text |-> "table", header |-> header, rows |-> rows]

TablesOf(cols) ==
  {TableBody(SelectCols(CatalogOrder, cols), rows) :
     rows \in UNION {[1..n -> RowsOf(cols)] : n \in 0..MaxRows}}

\* a text without a header line is the empty text
Bodies ==
  {EmptyBody} \cup UNION {TablesOf(cols) : cols \in (SUBSET RequiredCols) \ {{}}}

\* what an error answer carries: nothing, or a table all the same
ErrorBodies == {EmptyBody, TableBody(CatalogOrder, <<GoodRow>>)}

NoResponse == [status_code |-> 0, body |-> EmptyBody]

\* ------------------------------------------------------------------
\* pandas: the DataFrame and read_csv
\* ------------------------------------------------------------------
NumVal(h) == [kind |-> "num", v |-> h]
NaN == [kind |-> "nan", v |-> 0]
\* text; of kind "numstr" when it is the text of a number
StrVal(i) == [kind |-> "str", v |-> i]
NumStrVal(h) == [kind |-> "numstr", v |-> h]

NoDF == [parsed |-> FALSE, columns |-> <<>>, dtype |-> <<>>, rows |-> <<>>]

\* a column is float64 when it has rows and every cell is a number or empty
InferDtype(body, c) ==
  IF body.rows # <<>>
     /\ \A i \in DOMAIN body.rows : body.rows[i][c].kind \in {"num", "empty"}
  THEN "float64" ELSE "object"

ConvertCell(cell, dtype) ==
  CASE cell.kind = "empty" -> NaN
    [] cell.kind = "num" -> IF dtype = "float64" THEN NumVal(cell.v) ELSE NumStrVal(cell.v)
    [] OTHER -> StrVal(cell.v)

\* pd.read_csv(StringIO(response.text)); an empty text raises EmptyDataError
read_csv(body) ==
  LET cols == Range(body.header)
      dt == [c \in cols |-> InferDtype(body, c)]
  IN [parsed |-> TRUE,
      columns |-> body.header,
      dtype |-> dt,
      rows |-> [i \in DOMAIN body.rows |->
                  [c \in cols |-> ConvertCell(body.rows[i][c], dt[c])]]]

HasColumn(df, c) == c \in Range(df.columns)

\* the values of one column, in row order
Column(df, c) == [i \in DOMAIN df.rows |-> df.rows[i][c]]

RECURSIVE SumNums(_)
\* sum of the numbers of a series, NaN skipped
SumNums(vals) ==
  IF vals = <<>> THEN 0
  ELSE (IF Head(vals).kind = "num" THEN Head(vals).v ELSE 0) + SumNums(Tail(vals))

CountNums(vals) == Cardinality({i \in DOMAIN vals : vals[i].kind = "num"})

\* round half to even of num / den, den > 0
RoundHalfEven(num, den) ==
  LET q == num \div den
      r == num % den
  IN IF 2 * r < den THEN q
     ELSE IF 2 * r > den THEN q + 1
     ELSE IF q % 2 = 0 THEN q ELSE q + 1

\* a mean that divides by the number of values without looking at it
SeriesMean_Unguarded(vals) ==
  IF \E i \in DOMAIN vals : vals[i].kind \in {"str", "numstr"}
  THEN [exc |-> "TypeError", sum |-> 0, n |-> 0]
  ELSE IF CountNums(vals) = 0
       THEN [exc |-> "ZeroDivisionError", sum |-> 0, n |-> 0]
       ELSE [exc |-> "none", sum |-> SumNums(vals), n |-> CountNums(vals)]

\* Series.mean(): NaN is skipped, no number left gives nan, text raises
\* TypeError.  The mean is kept exact as sum / n.
SeriesMean(vals) ==
  IF \E i \in DOMAIN vals : vals[i].kind \in {"str", "numstr"}
  THEN [exc |-> "TypeError", sum |-> 0, n |-> 0]
  ELSE [exc |-> "none", sum |-> SumNums(vals), n |-> CountNums(vals)]

\* np.round(x, 2): nan stays nan
NpRound(m) == IF m.n = 0 THEN NaN ELSE NumVal(RoundHalfEven(m.sum, m.n))

\* ------------------------------------------------------------------
\* DataFrame.to_csv(index=False)
\* ------------------------------------------------------------------
COMMA == <<44>>
NEWLINE == <<10>>
QUOTE == <<34>>

ColName(c) ==
  CASE c = "place" -> <<112, 108, 97, 99, 101>>
    [] c = "latitude" -> <<108, 97, 116, 105, 116, 117, 100, 101>>
    [] c = "longitude" -> <<108, 111, 110, 103, 105, 116, 117, 100, 101>>
    [] c = "mag" -> <<109, 97, 103>>
    [] OTHER -> <<100, 101, 112, 116, 104>>

\* the texts of the cells: 'x' and the place name 'e-acute , euro-sign'
TextOf(i) == IF i = 1 THEN <<120>> ELSE <<233, 44, 8364>>

RECURSIVE Digits(_)
\* decimal digits of n >= 0
Digits(n) == IF n < 10 THEN <<48 + n>> ELSE Digits(n \div 10) \o <<48 + (n % 10)>>

\* repr of the float h / 100
FloatRepr(h) ==
  LET a == IF h < 0 THEN 0 - h ELSE h
      f == a % 100
  IN (IF h < 0 THEN <<45>> ELSE <<>>) \o Digits(a \div 100) \o <<46>>
     \o (IF f % 10 = 0 THEN <<48 + (f \div 10)>> ELSE <<48 + (f \div 10), 48 + (f % 10)>>)

RECURSIVE DoubleQuotes(_)
\* every quote of the field written twice
DoubleQuotes(t) ==
  IF t = <<>> THEN <<>>
  ELSE IF Len(t) = 1 THEN (IF t[1] = 34 THEN <<34, 34>> ELSE t)
  ELSE LET h == Len(t) \div 2
       IN DoubleQuotes(SubSeq(t, 1, h)) \o DoubleQuotes(SubSeq(t, h + 1, Len(t)))

\* csv.QUOTE_MINIMAL: a field holding a separator, a quote or a line end
QuoteField(t) ==
  IF \E i \in DOMAIN t : t[i] \in {44, 34, 10, 13}
  THEN QUOTE \o DoubleQuotes(t) \o QUOTE
  ELSE t

RenderValue(x) ==
  CASE x.kind = "nan" -> <<>>
    [] x.kind \in {"num", "numstr"} -> FloatRepr(x.v)
    [] OTHER -> QuoteField(TextOf(x.v))

RECURSIVE JoinFields(_)
JoinFields(fields) ==
  IF fields = <<>> THEN <<>>
  ELSE IF Len(fields) = 1 THEN Head(fields)
  ELSE Head(fields) \o COMMA \o JoinFields(Tail(fields))

RECURSIVE CsvRows(_, _)
CsvRows(columns, rows) ==
  IF rows = <<>> THEN <<>>
  ELSE JoinFields([j \in DOMAIN columns |-> RenderValue(Head(rows)[columns[j]])])
       \o NEWLINE \o CsvRows(columns, Tail(rows))

to_csv(df) ==
  JoinFields([j \in DOMAIN df.columns |-> ColName(df.columns[j])]) \o NEWLINE
  \o CsvRows(df.columns, df.rows)

\* ------------------------------------------------------------------
\* str.encode(), base64.b64encode, bytes.decode()
\* ------------------------------------------------------------------
Utf8Char(cp) ==
  IF cp < 128 THEN <<cp>>
  ELSE IF cp < 2048 THEN <<192 + (cp \div 64), 128 + (cp % 64)>>
  ELSE IF cp < 65536
       THEN <<224 + (cp \div 4096), 128 + ((cp \div 64) % 64), 128 + (cp % 64)>>
  ELSE <<240 + (cp \div 262144), 128 + ((cp \div 4096) % 64),
         128 + ((cp \div 64) % 64), 128 + (cp % 64)>>

RECURSIVE Utf8Encode(_)
\* the bytes of the characters, one after the other
Utf8Encode(text) ==
  IF text = <<>> THEN <<>>
  ELSE IF Len(text) = 1 THEN Utf8Char(text[1])
  ELSE LET h == Len(text) \div 2
       IN Utf8Encode(SubSeq(text, 1, h)) \o Utf8Encode(SubSeq(text, h + 1, Len(text)))

\* the base64 alphabet: A-Z a-z 0-9 + / ; '=' (61) pads the last group
B64Char(i) ==
  IF i < 26 THEN 65 + i
  ELSE IF i < 52 THEN 97 + (i - 26)
  ELSE IF i < 62 THEN 48 + (i - 52)
  ELSE IF i = 62 THEN 43 ELSE 47

B64Group3(b0, b1, b2) ==
  <<B64Char(b0 \div 4), B64Char((b0 % 4) * 16 + (b1 \div 16)),
    B64Char((b1 % 16) * 4 + (b2 \div 64)), B64Char(b2 % 64)>>

B64Tail(bytes) ==
  IF Len(bytes) = 1
  THEN <<B64Char(bytes[1] \div 4), B64Char((bytes[1] % 4) * 16), 61, 61>>
  ELSE <<B64Char(bytes[1] \div 4), B64Char((bytes[1] % 4) * 16 + (bytes[2] \div 16)),
         B64Char((bytes[2] % 16) * 4), 61>>

\* a cut of the bytes between two groups of three, near the middle
GroupCut(bytes) == 3 * ((((Len(bytes) - 1) \div 3) + 1) \div 2)

RECURSIVE b64encode_NoPad(_)
\* an encoder that leaves the padding of the last group out
b64encode_NoPad(bytes) ==
  IF bytes = <<>> THEN <<>>
  ELSE IF Len(bytes) = 1
       THEN <<B64Char(bytes[1] \div 4), B64Char((bytes[1] % 4) * 16)>>
  ELSE IF Len(bytes) = 2
       THEN <<B64Char(bytes[1] \div 4),
              B64Char((bytes[1] % 4) * 16 + (bytes[2] \div 16)),
              B64Char((bytes[2] % 16) * 4)>>
  ELSE IF Len(bytes) = 3 THEN B64Group3(bytes[1], bytes[2], bytes[3])
  ELSE b64encode_NoPad(SubSeq(bytes, 1, GroupCut(bytes)))
       \o b64encode_NoPad(SubSeq(bytes, GroupCut(bytes) + 1, Len(bytes)))

RECURSIVE b64encode(_)
\* three bytes give four characters, the last one or two bytes a padded group
b64encode(bytes) ==
  IF bytes = <<>> THEN <<>>
  ELSE IF Len(bytes) < 3 THEN B64Tail(bytes)
  ELSE IF Len(bytes) = 3 THEN B64Group3(bytes[1], bytes[2], bytes[3])
  ELSE b64encode(SubSeq(bytes, 1, GroupCut(bytes)))
       \o b64encode(SubSeq(bytes, GroupCut(bytes) + 1, Len(bytes)))

\* bytes.decode() of base64 output: every byte is ASCII, one character each
AsciiDecode(bytes) == [i \in DOMAIN bytes |-> IF bytes[i] < 128 THEN bytes[i] ELSE -1]

HREF_OPEN ==
  <<60, 97, 32, 104, 114, 101, 102, 61, 34, 100, 97, 116, 97, 58, 102, 105, 108,
    101, 47, 99, 115, 118, 59, 98, 97, 115, 101, 54, 52, 44>>

HREF_CLOSE ==
  <<34, 62, 68, 111, 119, 110, 108, 111, 97, 100, 32, 67, 83, 86, 32, 102, 105,
    108, 101, 60, 47, 97, 62>>

\* lines 116-120
get_table_download_link(df) ==
  LET csv == to_csv(df)
      b64 == AsciiDecode(b64encode(Utf8Encode(csv)))
  IN HREF_OPEN \o b64 \o HREF_CLOSE

\* ------------------------------------------------------------------
\* One run of the script: the state machine
\* ------------------------------------------------------------------
Unset == [type |-> "unset", y |-> 0, m |-> 0, d |-> 0]
UnsetMag == [type |-> "unset", v |-> 0]
NotShown == [kind |-> "unset", v |-> 0]
NoErr == [exc |-> "none", line |-> 0]

\* the position after a step that went through
NextPc(p) ==
  CASE p = "called" -> "validated"
    [] p = "built" -> "responded"
    [] p = "responded" -> "status_ok"
    [] p = "status_ok" -> "parsed"
    [] p = "counted" -> "averaged"
    [] p = "averaged" -> "charted"
    [] p = "charted" -> "tabled"
    [] OTHER -> "done"

\* an exception that is caught and the run carried on
Raise_Swallowed(exc, line) ==
  /\ err' = [exc |-> exc, line |-> line]
  /\ pc' = NextPc(pc)

\* an exception leaves the function at the line that raised it
Raise(exc, line) ==
  /\ err' = [exc |-> exc, line |-> line]
  /\ pc' = "failed"

Init ==
  /\ pc = "idle"
  /\ start_date = Unset
  /\ end_date = Unset
  /\ min_mag = UnsetMag
  /\ req_txt = <<>>
  /\ netCalls = 0
  /\ response = NoResponse
  /\ eq_df = NoDF
  /\ ui = <<>>
  /\ count = NotShown
  /\ mean = NotShown
  /\ href = <<>>
  /\ err = NoErr
  /\ steps = <<>>

\* lines 137-163: the sidebar widgets give two dates and a slider value,
\* and the script calls the function with them
ScriptRun ==
  /\ pc = "idle"
  /\ start_date' \in Dates
  /\ end_date' \in Dates
  /\ min_mag' \in SliderValues
  /\ pc' = "called"
  /\ UNCHANGED <<req_txt, netCalls, response, eq_df, ui, count, mean, href, err, steps>>

\* line 11: the function called with arguments of any type
DirectCall ==
  /\ pc = "idle"
  /\ start_date' \in Dates \cup {NotADate}
  /\ end_date' \in Dates \cup {NotADate}
  /\ min_mag' \in MinMagArgs
  /\ pc' = "called"
  /\ UNCHANGED <<req_txt, netCalls, response, eq_df, ui, count, mean, href, err, steps>>

\* lines 41-44: the assertions on the arguments
Validate ==
  /\ pc = "called"
  /\ steps' = Append(steps, "validate")
  /\ IF ~IsDate(start_date) THEN Raise("AssertionError", 41)
     ELSE IF ~IsDate(end_date) THEN Raise("AssertionError", 42)
     ELSE IF Truthy(min_mag) /\ ~IsFloatOrInt(min_mag) THEN Raise("AssertionError", 44)
     ELSE pc' = "validated" /\ UNCHANGED err
  /\ UNCHANGED <<start_date, end_date, min_mag, req_txt, netCalls, response,
                 eq_df, ui, count, mean, href>>

\* lines 47-50
BuildRequest ==
  /\ pc = "validated"
  /\ steps' = Append(steps, "build")
  /\ req_txt' = BuildUrl(start_date, end_date, min_mag)
  /\ pc' = "built"
  /\ UNCHANGED <<start_date, end_date, min_mag, netCalls, response, eq_df, ui,
                 count, mean, href, err>>

\* line 53: requests.get returns a response
Get ==
  /\ pc = "built"
  /\ steps' = Append(steps, "request")
  /\ netCalls' = netCalls + 1
  /\ \E status \in Statuses :
       \E body \in (IF status = HTTP_OK THEN Bodies ELSE ErrorBodies) :
         response' = [status_code |-> status, body |-> body]
  /\ pc' = "responded"
  /\ UNCHANGED <<start_date, end_date, min_mag, req_txt, eq_df, ui, count, mean,
                 href, err>>

\* line 53: requests.get raises (no connection, timeout)
GetRaises ==
  /\ pc = "built"
  /\ steps' = Append(steps, "request")
  /\ netCalls' = netCalls + 1
  /\ Raise("ConnectionError", 53)
  /\ UNCHANGED <<start_date, end_date, min_mag, req_txt, response, eq_df, ui,
                 count, mean, href>>

\* any 2xx status taken for a success
StatusOk_Any2xx(r) == r.status_code \div 100 = 2

\* line 56: response.status_code == 200
StatusOk(r) == r.status_code = HTTP_OK

\* a failed request is issued again
CheckStatus_Retry ==
  /\ pc = "responded"
  /\ steps' = Append(steps, "status")
  /\ IF response.status_code = HTTP_OK THEN pc' = "status_ok" ELSE pc' = "built"
  /\ UNCHANGED <<start_date, end_date, min_mag, req_txt, netCalls, response,
                 eq_df, ui, count, mean, href, err>>

\* line 56
CheckStatus ==
  /\ pc = "responded"
  /\ steps' = Append(steps, "status")
  /\ IF StatusOk(response)
     THEN pc' = "status_ok" /\ UNCHANGED err
     ELSE Raise("AssertionError", 56)
  /\ UNCHANGED <<start_date, end_date, min_mag, req_txt, netCalls, response,
                 eq_df, ui, count, mean, href>>

\* lines 59-60
Parse ==
  /\ pc = "status_ok"
  /\ steps' = Append(steps, "parse")
  /\ IF response.body.text = "empty"
     THEN Raise("EmptyDataError", 60) /\ UNCHANGED eq_df
     ELSE eq_df' = read_csv(response.body) /\ pc' = "parsed" /\ UNCHANGED err
  /\ UNCHANGED <<start_date, end_date, min_mag, req_txt, netCalls, response, ui,
                 count, mean, href>>

\* lines 63-64
CountMetric ==
  /\ pc = "parsed"
  /\ steps' = Append(steps, "count")
  /\ count' = [kind |-> "int", v |-> Len(eq_df.rows)]
  /\ ui' = Append(ui, "count_metric")
  /\ pc' = "counted"
  /\ UNCHANGED <<start_date, end_date, min_mag, req_txt, netCalls, response,
                 eq_df, mean, href, err>>

\* line 65 (and the two spacers of lines 68-69)
MeanMetric ==
  /\ pc = "counted"
  /\ steps' = Append(steps, "mean")
  /\ IF ~HasColumn(eq_df, "mag")
     THEN Raise("AttributeError", 65) /\ UNCHANGED <<mean, ui>>
     ELSE LET m == SeriesMean(Column(eq_df, "mag"))
          IN IF m.exc # "none"
             THEN Raise(m.exc, 65) /\ UNCHANGED <<mean, ui>>
             ELSE /\ mean' = NpRound(m)
                  /\ ui' = Append(ui, "mean_metric")
                  /\ pc' = "averaged"
                  /\ UNCHANGED err
  /\ UNCHANGED <<start_date, end_date, min_mag, req_txt, netCalls, response,
                 eq_df, count, href>>

\* the columns px.scatter_geo is given by name
ChartCols == {"latitude", "longitude", "place", "mag"}

\* size=eq_df['mag']**2 holds a nan
SizeHasNaN(df) == \E i \in DOMAIN df.rows : df.rows[i]["mag"].kind = "nan"

\* lines 72-91: a column that is not in the frame raises ValueError; a nan
\* among the marker sizes is refused by some plotly versions and drawn by
\* others
Chart ==
  /\ pc = "averaged"
  /\ steps' = Append(steps, "chart")
  /\ \/ /\ ~(ChartCols \subseteq Range(eq_df.columns))
        /\ Raise("ValueError", 72)
        /\ UNCHANGED ui
     \/ /\ ChartCols \subseteq Range(eq_df.columns)
        /\ SizeHasNaN(eq_df)
        /\ Raise("ValueError", 76)
        /\ UNCHANGED ui
     \/ /\ ChartCols \subseteq Range(eq_df.columns)
        /\ ui' = Append(ui, "chart")
        /\ pc' = "charted"
        /\ UNCHANGED err
  /\ UNCHANGED <<start_date, end_date, min_mag, req_txt, netCalls, response,
                 eq_df, count, mean, href>>

\* a selection that keeps the columns it finds and drops the others
CanSelect_Present(df, cols) == cols \cap Range(df.columns) # {}

\* line 94: eq_df[[...]] needs every column of the list
CanSelect(df, cols) == cols \subseteq Range(df.columns)

\* line 94
Table ==
  /\ pc = "charted"
  /\ steps' = Append(steps, "table")
  /\ IF CanSelect(eq_df, RequiredCols)
     THEN ui' = Append(ui, "table") /\ pc' = "tabled" /\ UNCHANGED err
     ELSE Raise("KeyError", 94) /\ UNCHANGED ui
  /\ UNCHANGED <<start_date, end_date, min_mag, req_txt, netCalls, response,
                 eq_df, count, mean, href>>

\* line 95
Link ==
  /\ pc = "tabled"
  /\ steps' = Append(steps, "link")
  /\ href' = get_table_download_link(eq_df)
  /\ ui' = Append(ui, "link")
  /\ pc' = "done"
  /\ UNCHANGED <<start_date, end_date, min_mag, req_txt, netCalls, response,
                 eq_df, count, mean, err>>

\* a widget changes: streamlit runs the script again from the top, with
\* nothing kept from the run before
Rerun ==
  /\ pc \in {"done", "failed"}
  /\ pc' = "idle"
  /\ start_date' = Unset
  /\ end_date' = Unset
  /\ min_mag' = UnsetMag
  /\ req_txt' = <<>>
  /\ netCalls' = 0
  /\ response' = NoResponse
  /\ eq_df' = NoDF
  /\ ui' = <<>>
  /\ count' = NotShown
  /\ mean' = NotShown
  /\ href' = <<>>
  /\ err' = NoErr
  /\ steps' = <<>>

Next ==
  \/ ScriptRun
  \/ DirectCall
  \/ Validate
  \/ BuildRequest
  \/ Get
  \/ GetRaises
  \/ CheckStatus
  \/ Parse
  \/ CountMetric
  \/ MeanMetric
  \/ Chart
  \/ Table
  \/ Link
  \/ Rerun

Spec == Init /\ [][Next]_vars

\* ------------------------------------------------------------------
\* Vocabulary of the properties
\* ------------------------------------------------------------------
Finished == pc \in {"done", "failed"}

\* the error kinds of the design, by the line that raised
Outcome ==
  CASE pc = "done" -> "ok"
    [] pc = "failed" /\ err.line \in {41, 42, 44} -> "InvalidParameterError"
    [] pc = "failed" /\ err.line = 53 -> "TransportError"
    [] pc = "failed" /\ err.line = 56 -> "RemoteRequestError"
    [] pc = "failed" /\ err.line \in {60, 65, 72, 76, 94} -> "ParseError"
    [] OTHER -> "running"

NonNumeric(x) == x.type \in {"str", "list"}

StepOrder ==
  <<"validate", "build", "request", "status", "parse", "count", "mean", "chart",
    "table", "link">>

OutputOrder == <<"count_metric", "mean_metric", "chart", "table", "link">>

IsPrefix(s, t) == Len(s) <= Len(t) /\ \A i \in DOMAIN s : s[i] = t[i]

\* the request text carries the parameter with this value
HasMinMagnitude(url, value) ==
  \E i \in DOMAIN url : url[i] = "minmagnitude=" /\ i < Len(url) /\ url[i + 1] = value

CarriesMinMagnitude(url) == \E i \in DOMAIN url : url[i] = "minmagnitude="

\* base64 decoding, as the receiver of the link does it
B64Index(c) ==
  IF c >= 65 /\ c <= 90 THEN c - 65
  ELSE IF c >= 97 /\ c <= 122 THEN c - 97 + 26
  ELSE IF c >= 48 /\ c <= 57 THEN c - 48 + 52
  ELSE IF c = 43 THEN 62
  ELSE IF c = 47 THEN 63
  ELSE -1

DecodeGroup(g) ==
  LET a == B64Index(g[1])
      b == B64Index(g[2])
      c == B64Index(g[3])
      d == B64Index(g[4])
  IN IF g[3] = 61 /\ g[4] = 61 THEN <<a * 4 + (b \div 16)>>
     ELSE IF g[4] = 61 THEN <<a * 4 + (b \div 16), (b % 16) * 16 + (c \div 4)>>
     ELSE <<a * 4 + (b \div 16), (b % 16) * 16 + (c \div 4), (c % 4) * 64 + d>>

\* a group is four characters of the alphabet, '=' only at its end
GroupOk(g, last) ==
  /\ B64Index(g[1]) >= 0
  /\ B64Index(g[2]) >= 0
  /\ \/ B64Index(g[3]) >= 0 /\ B64Index(g[4]) >= 0
     \/ last /\ B64Index(g[3]) >= 0 /\ g[4] = 61
     \/ last /\ g[3] = 61 /\ g[4] = 61

\* the i-th group of four characters
GroupAt(chars, i) == SubSeq(chars, 4 * i - 3, 4 * i)

RECURSIVE DecodeGroups(_, _, _)
\* the bytes of the groups lo..hi
DecodeGroups(chars, lo, hi) ==
  IF lo > hi THEN <<>>
  ELSE IF lo = hi THEN DecodeGroup(GroupAt(chars, lo))
  ELSE LET mid == (lo + hi) \div 2
       IN DecodeGroups(chars, lo, mid) \o DecodeGroups(chars, mid + 1, hi)

\* <<-1>> stands for binascii.Error
b64decode(chars) ==
  LET n == Len(chars) \div 4
  IN IF Len(chars) % 4 # 0 \/ \E i \in 1..n : ~GroupOk(GroupAt(chars, i), i = n)
     THEN <<-1>>
     ELSE DecodeGroups(chars, 1, n)

\* the payload of a link: what follows 'base64,' up to the closing quote
Payload(link) ==
  LET rest == SubSeq(link, Len(HREF_OPEN) + 1, Len(link))
      quotes == {i \in DOMAIN rest : rest[i] = 34}
      stop == IF quotes = {} THEN Len(rest) + 1
              ELSE CHOOSE i \in quotes : \A j \in quotes : i <= j
  IN SubSeq(rest, 1, stop - 1)

\* a record with a magnitude, a latitude and a longitude that are numbers
WellFormedRow(df, i) ==
  \A c \in {"mag", "latitude", "longitude"} :
    HasColumn(df, c) /\ df.rows[i][c].kind = "num"

WellFormed(df) == \A i \in DOMAIN df.rows : WellFormedRow(df, i)

\* m is q rounded to the nearest unit, q = num / den
IsRounded(m, num, den) ==
  /\ 2 * (m * den - num) <= den
  /\ 2 * (num - m * den) <= den

\* ------------------------------------------------------------------
\* Properties
\* ------------------------------------------------------------------

\* C1: a run whose min_mag is not a number (a str or a list, the empty ones
\* included) makes no network call at any point and ends in
\* InvalidParameterError.
C1_NonNumericRejected ==
  NonNumeric(min_mag) =>
    /\ netCalls = 0
    /\ Finished => Outcome = "InvalidParameterError"

\* C2: once the GET has answered with a status other than 200 the body is
\* never parsed, no metric, chart, table or link is emitted, and the run ends
\* in RemoteRequestError.
C2_Non200IsRemoteRequestError ==
  (response # NoResponse /\ response.status_code # HTTP_OK) =>
    /\ eq_df = NoDF
    /\ ui = <<>>
    /\ count = NotShown
    /\ mean = NotShown
    /\ href = <<>>
    /\ pc \in {"responded", "failed"}
    /\ pc = "failed" => Outcome = "RemoteRequestError"

C2_Witness ==
  /\ pc = "failed"
  /\ response.status_code = 503
  /\ response.body.text = "table"
  /\ err = [exc |-> "AssertionError", line |-> 56]

\* C3: a run that got a 200 answer whose table lacks one of place, latitude,
\* longitude, mag, depth ends in ParseError, whichever column it is.
C3_MissingColumnIsParseError ==
  (/\ Finished
   /\ response.status_code = HTTP_OK
   /\ response.body.text = "table"
   /\ ~(RequiredCols \subseteq Range(response.body.header)))
    => Outcome = "ParseError"

\* the run that lacks only depth fails at the table, after the chart
C3_Witness ==
  /\ pc = "failed"
  /\ response.status_code = HTTP_OK
  /\ Range(response.body.header) = RequiredCols \ {"depth"}
  /\ err = [exc |-> "KeyError", line |-> 94]
  /\ ui = <<"count_metric", "mean_metric", "chart">>

\* C4: a run makes at most one network call: one when the arguments passed
\* the assertions, none otherwise, and none again after a failure.
C4_AtMostOneCall ==
  /\ netCalls <= 1
  /\ netCalls = 1 <=> "request" \in Range(steps)
  /\ Finished => netCalls = (IF err.line \in {41, 42, 44} THEN 0 ELSE 1)

C4_Witness ==
  /\ pc = "failed"
  /\ err.line = 56
  /\ netCalls = 1

\* C5: the request text is the endpoint with format=csv, starttime and
\* endtime, and it carries minmagnitude=<min_mag> exactly when min_mag was
\* given, that is for every number, 0 and 0.0 included, and not for None.
C5_MinMagnitudeIffProvided ==
  (req_txt # <<>> /\ min_mag.type \in {"float", "int", "NoneType"}) =>
    /\ SubSeq(req_txt, 1, 9) = UrlWithoutMag(start_date, end_date)
    /\ CarriesMinMagnitude(req_txt) <=> min_mag # NoneVal
    /\ min_mag # NoneVal => HasMinMagnitude(req_txt, FormatNumber(min_mag))

\* C6: the base64 text between 'base64,' and the closing quote of the link
\* decodes to the bytes of the frame's CSV text, and the link is that text
\* between the fixed opening and closing and nothing else.
C6_LinkRoundTrip ==
  pc = "done" =>
    /\ b64decode(Payload(href)) = Utf8Encode(to_csv(eq_df))
    /\ href = HREF_OPEN \o Payload(href) \o HREF_CLOSE

\* a frame with records whose encoding ends in padding
C6_Witness ==
  /\ pc = "done"
  /\ eq_df.rows # <<>>
  /\ Len(Utf8Encode(to_csv(eq_df))) % 3 # 0
  /\ Len(Utf8Encode(to_csv(eq_df))) > Len(to_csv(eq_df))
  /\ Payload(href)[Len(Payload(href))] = 61

\* C7: for a frame with records, the mean shown (when a number is shown) is
\* the sum of the mag of its records divided by the count shown, rounded to
\* 2 decimals, that is to the hundredth the values are held in.
C7_MeanOverAllRecords ==
  (mean.kind = "num" /\ count.v > 0) =>
    IsRounded(mean.v, SumNums(Column(eq_df, "mag")), count.v)

\* C8: for a frame without records that has the mag column, the count shown
\* is 0 and the mean step gives nan without raising.
C8_EmptyMeanIsNaN ==
  (eq_df.parsed /\ eq_df.rows = <<>> /\ HasColumn(eq_df, "mag")) =>
    /\ err.line # 65
    /\ count # NotShown => count = [kind |-> "int", v |-> 0]
    /\ "mean" \in Range(steps) => mean = NaN

C8_Witness ==
  /\ pc = "averaged"
  /\ eq_df.rows = <<>>
  /\ count = [kind |-> "int", v |-> 0]
  /\ mean = NaN

\* C9: a frame with the five columns that has reached the count, mean,
\* chart, table or link step has no record, or only records whose mag,
\* latitude and longitude are numbers.  (A frame that lacks a column is the
\* case of C3.)
C9_DatasetWellFormed ==
  ("count" \in Range(steps) /\ CanSelect(eq_df, RequiredCols)) => WellFormed(eq_df)

\* C10: the steps run in the one order validate, request, status, parse,
\* count, mean, chart, table, link, each at most once; the outputs are those
\* of the steps that went through, the link comes after the other four, and
\* after a failure nothing runs but the next run of the script.
C10_StateOrder ==
  /\ IsPrefix(steps, StepOrder)
  /\ IsPrefix(ui, OutputOrder)
  /\ err # NoErr <=> pc = "failed"
  /\ Len(ui) = (IF Len(steps) <= 5 THEN 0
                ELSE Len(steps) - 5 - (IF pc = "failed" THEN 1 ELSE 0))
  /\ "link" \in Range(ui) => ui = OutputOrder

C10_LinearOrder ==
  /\ []C10_StateOrder
  /\ [][pc = "failed" => pc' = "idle"]_vars

\* a run that failed at the chart: two metrics out, nothing after
C10_Witness ==
  /\ pc = "failed"
  /\ steps = SubSeq(StepOrder, 1, 8)
  /\ ui = <<"count_metric", "mean_metric">>

====
